---- MODULE Spec2Model ----
(***************************************************************************)
(* A model of remove.py: the token exchange, the paginated fetch of the    *)
(* saved episodes, the Date Filter (strptime, pytz localize / astimezone   *)
(* and the comparison of aware datetimes), the per-episode delete loop,    *)
(* and the prompt-driven __main__ that drives them.                        *)
(***************************************************************************)
EXTENDS Integers, Sequences, FiniteSets, TLC

VARIABLES
    pc,                 \* position of the process
    phase,              \* "main": __main__ before the call; "run": inside remove_episodes_based_on_filter
    server,             \* the remote collection: a chain of pages, page i linking to page i+1
    access_token,       \* the bearer token held by the running function, or NoToken
    url,                \* get_saved_episodes: the page to request next, 0 for None
    episodes,           \* get_saved_episodes: the items accumulated / returned
    selected_authors,   \* the author selection handed to the filter
    date_type,          \* answers['date_type']
    before_date,        \* answers['before_date'], a character sequence
    local_tz,           \* the zone chosen at the timezone prompt
    test_mode,          \* answers['test_mode']
    filter_ran,         \* whether remove_episodes_by_date was called (episodes_to_remove is bound)
    episodes_to_remove, \* the Date Filter's result
    inspected,          \* how many episodes the Date Filter's loop looked at
    del_idx,            \* the delete loop's position in episodes_to_remove
    error,              \* the exception that ended the run, or "none"
    events              \* everything observable, in order: requests, prompts, returns, printed lines

vars == <<pc, phase, server, access_token, url, episodes, selected_authors, date_type,
          before_date, local_tz, test_mode, filter_ran, episodes_to_remove, inspected,
          del_idx, error, events>>

-----------------------------------------------------------------------------
(* Bounds of the model *)

\* longest episode sequence handed to the Date Filter on its own
MaxSeqLen == 2
\* most pages in a chain served to get_saved_episodes on its own
MaxPages == 3
\* most items on one page of such a chain
MaxPageLen == 2
\* most episodes in the library of a whole run
MaxLib == 3
\* items per page when a whole run's library is served
PageLimit == 2

-----------------------------------------------------------------------------
(* Calendar arithmetic behind datetime: days since 1970-01-01, seconds since the epoch *)

IsLeap(y) == (y % 4 = 0 /\ y % 100 # 0) \/ y % 400 = 0

DaysInMonth(y, m) ==
    IF m = 2 THEN (IF IsLeap(y) THEN 29 ELSE 28)
    ELSE IF m \in {4, 6, 9, 11} THEN 30 ELSE 31

DaysFromCivil(y, m, d) ==
    LET yy  == IF m <= 2 THEN y - 1 ELSE y
        era == yy \div 400
        yoe == yy - era * 400
        mp  == IF m > 2 THEN m - 3 ELSE m + 9
        doy == (153 * mp + 2) \div 5 + d - 1
        doe == yoe * 365 + yoe \div 4 - yoe \div 100 + doy
    IN  era * 146097 + doe - 719468

\* the year of a day count: from the day of the 400-year era to the year of the era
\* and the day of the year counted from 1 March
YearOfEra(doe) == (doe - doe \div 1460 + doe \div 36524 - doe \div 146096) \div 365

YearFromMarch(era, yoe, doy) == yoe + era * 400 + (IF (5 * doy + 2) \div 153 < 10 THEN 0 ELSE 1)

YearInEra(era, doe, yoe) == YearFromMarch(era, yoe, doe - (365 * yoe + yoe \div 4 - yoe \div 100))

YearOfShifted(z, era) == YearInEra(era, z - era * 146097, YearOfEra(z - era * 146097))

YearOfDays(days) == YearOfShifted(days + 719468, (days + 719468) \div 146097)

\* 0 = Sunday; 1970-01-01 was a Thursday
Weekday(days) == (days + 4) % 7

\* the day of the month of the n-th Sunday of month m
NthSunday(y, m, n) ==
    LET first == DaysFromCivil(y, m, 1)
    IN  1 + ((7 - Weekday(first)) % 7) + 7 * (n - 1)

LastSunday(y, m) ==
    LET last == DaysFromCivil(y, m, DaysInMonth(y, m))
    IN  DaysInMonth(y, m) - Weekday(last)

\* a naive datetime as seconds: the value of its fields read as a count from 1970-01-01T00:00:00
NaiveSeconds(y, mo, d, h, mi, s) == DaysFromCivil(y, mo, d) * 86400 + h * 3600 + mi * 60 + s

-----------------------------------------------------------------------------
(* The nine zones offered at the timezone prompt, as pytz resolves them *)

common_timezones ==
    <<"UTC", "America/New_York", "America/Los_Angeles", "Europe/London", "Europe/Paris",
      "Asia/Tokyo", "Australia/Sydney", "Asia/Hong_Kong", "Asia/Kolkata">>

Zones == {common_timezones[i] : i \in 1..Len(common_timezones)}

StdOffset(z) ==
    CASE z = "UTC" -> 0
      [] z = "America/New_York" -> -18000
      [] z = "America/Los_Angeles" -> -28800
      [] z = "Europe/London" -> 0
      [] z = "Europe/Paris" -> 3600
      [] z = "Asia/Tokyo" -> 32400
      [] z = "Australia/Sydney" -> 36000
      [] z = "Asia/Hong_Kong" -> 28800
      [] z = "Asia/Kolkata" -> 19800

\* whether daylight time is in force in zone z at the UTC instant t of year y
\* (the rules in force since 2008): the United States from 02:00 on the second Sunday
\* of March to 02:00 on the first Sunday of November, Europe from 01:00 UTC on the last
\* Sunday of March to 01:00 UTC on the last Sunday of October, New South Wales from
\* 02:00 on the first Sunday of October to 03:00 on the first Sunday of April
DstInYear(z, t, y) ==
    CASE z \in {"America/New_York", "America/Los_Angeles"} ->
           /\ DaysFromCivil(y, 3, NthSunday(y, 3, 2)) * 86400 + 7200 - StdOffset(z) <= t
           /\ t < DaysFromCivil(y, 11, NthSunday(y, 11, 1)) * 86400 + 3600 - StdOffset(z)
      [] z \in {"Europe/London", "Europe/Paris"} ->
           /\ DaysFromCivil(y, 3, LastSunday(y, 3)) * 86400 + 3600 <= t
           /\ t < DaysFromCivil(y, 10, LastSunday(y, 10)) * 86400 + 3600
      [] z = "Australia/Sydney" ->
           \/ t < DaysFromCivil(y, 4, NthSunday(y, 4, 1)) * 86400 + 7200 - StdOffset(z)
           \/ DaysFromCivil(y, 10, NthSunday(y, 10, 1)) * 86400 + 7200 - StdOffset(z) <= t
      [] OTHER -> FALSE

InDst(z, t) == DstInYear(z, t, YearOfDays(t \div 86400))

UtcOffset(z, t) == StdOffset(z) + (IF InDst(z, t) THEN 3600 ELSE 0)

\* tz.localize(naive) with is_dst=False: the aware datetime whose wall clock is `naive`;
\* an ambiguous or skipped wall clock resolves to standard time
localize(z, naive) ==
    LET std == StdOffset(z)
        dst == std + 3600
        off == IF UtcOffset(z, naive - dst) = dst /\ UtcOffset(z, naive - std) # std
               THEN dst ELSE std
    IN  [utc |-> naive - off, offset |-> off]

\* pytz.utc.localize(naive)
utc_localize(naive) == [utc |-> naive, offset |-> 0]

\* dt.astimezone(z): the same instant, shown in zone z
astimezone(dt, z) == [utc |-> dt.utc, offset |-> UtcOffset(z, dt.utc)]

\* a <= b in place of a < b
AwareLess_or_equal(a, b) == a.utc <= b.utc

\* a < b on aware datetimes
AwareLess(a, b) == a.utc < b.utc

-----------------------------------------------------------------------------
(* datetime.strptime(text, '%Y-%m-%d') on a character sequence *)

DigitChars == <<"0", "1", "2", "3", "4", "5", "6", "7", "8", "9">>

Digits == {DigitChars[i] : i \in 1..10}

DigitVal(c) == (CHOOSE i \in 1..10 : DigitChars[i] = c) - 1

ParseFailure == [ok |-> FALSE, y |-> 0, m |-> 0, d |-> 0]

\* the format's regex, \d\d\d\d-(1[0-2]|0[1-9]|[1-9])-(3[01]|[12]\d|0[1-9]|[1-9]| [1-9]),
\* matched at the start of the text; text left over after the match and field values
\* that make no date are both a ValueError
strptime_date(text) ==
    LET n == Len(text)
        isD(i) == i <= n /\ text[i] \in Digits
        nz(i)  == isD(i) /\ text[i] # "0"
        at(i, c) == i <= n /\ text[i] = c
        val(i) == DigitVal(text[i])
        \* the month alternatives in order, each kept only if "-" follows
        mlen == IF at(6, "1") /\ isD(7) /\ val(7) <= 2 /\ at(8, "-") THEN 2
                ELSE IF at(6, "0") /\ nz(7) /\ at(8, "-") THEN 2
                ELSE IF nz(6) /\ at(7, "-") THEN 1
                ELSE 0
        p == 7 + mlen   \* where the day starts
        dlen == IF at(p, "3") /\ isD(p + 1) /\ val(p + 1) <= 1 THEN 2
                ELSE IF isD(p) /\ val(p) \in {1, 2} /\ isD(p + 1) THEN 2
                ELSE IF at(p, "0") /\ nz(p + 1) THEN 2
                ELSE IF nz(p) THEN 1
                ELSE IF at(p, " ") /\ nz(p + 1) THEN 2
                ELSE 0
    IN  IF ~(isD(1) /\ isD(2) /\ isD(3) /\ isD(4) /\ at(5, "-")) THEN ParseFailure
        ELSE IF mlen = 0 \/ dlen = 0 THEN ParseFailure
        ELSE IF p + dlen - 1 # n THEN ParseFailure      \* unconverted data remains
        ELSE LET y == 1000 * val(1) + 100 * val(2) + 10 * val(3) + val(4)
                 m == IF mlen = 2 THEN 10 * val(6) + val(7) ELSE val(6)
                 d == IF dlen = 1 THEN val(p)
                      ELSE IF at(p, " ") THEN val(p + 1)
                      ELSE 10 * val(p) + val(p + 1)
             IN  IF y < 1 \/ d > DaysInMonth(y, m) THEN ParseFailure
                 ELSE [ok |-> TRUE, y |-> y, m |-> m, d |-> d]

-----------------------------------------------------------------------------
(* Episodes as the list endpoint returns them.  added_at is the fields of the     *)
(* '%Y-%m-%dT%H:%M:%SZ' string, release_date those of the '%Y-%m-%d' string.      *)

Ep(id, publisher, added, released) ==
    [id |-> id, publisher |-> publisher, added_at |-> added, release_date |-> released]

\* the publishers of the model, in lexicographic order
Publishers == <<"Ann", "Bob">>

\* a library of a few episodes around the new year of 2023
LibraryEpisodes ==
    << Ep("e1", "Ann", <<2022, 12, 25, 10, 0, 0>>, <<2022, 12, 20>>),
       Ep("e2", "Bob", <<2022, 12, 31, 23, 30, 0>>, <<2023, 1, 1>>),
       Ep("e3", "Ann", <<2023, 1, 1, 3, 0, 0>>, <<2022, 12, 31>>),
       Ep("e4", "Bob", <<2023, 6, 30, 22, 30, 0>>, <<2023, 7, 1>>) >>

\* the instants at which 2023-01-01, 2023-03-12 and 2023-07-01 begin in the offered zones
\* east and west of Greenwich
BoundaryTimes ==
    { <<2022, 12, 31, 13, 0, 0>>, <<2022, 12, 31, 15, 0, 0>>, <<2022, 12, 31, 16, 0, 0>>,
      <<2022, 12, 31, 18, 30, 0>>, <<2022, 12, 31, 23, 0, 0>>,
      <<2023, 1, 1, 5, 0, 0>>, <<2023, 1, 1, 8, 0, 0>>,
      <<2023, 3, 12, 5, 0, 0>>, <<2023, 3, 12, 7, 0, 0>>, <<2023, 3, 12, 8, 0, 0>>,
      <<2023, 6, 30, 14, 0, 0>>, <<2023, 6, 30, 22, 0, 0>>, <<2023, 6, 30, 23, 0, 0>>,
      <<2023, 7, 1, 4, 0, 0>>, <<2023, 7, 1, 7, 0, 0>> }

\* one second earlier, for a time of day other than midnight
SecondBefore(t) ==
    IF t[5] = 0 THEN <<t[1], t[2], t[3], t[4] - 1, 59, 59>>
    ELSE <<t[1], t[2], t[3], t[4], t[5] - 1, 59>>

\* single episodes whose dates sit on those boundaries; released on the day they were added
\* to the library, or on the day after
ProbeEpisodes ==
    { Ep("p", "Ann", t, <<t[1], t[2], t[3]>>) : t \in BoundaryTimes }
    \cup { Ep("p", "Ann", SecondBefore(t), <<t[1], t[2], t[3]>>) : t \in BoundaryTimes }
    \cup { Ep("p", "Ann", <<2022, 12, 31, 23, 59, 59>>, <<2022, 12, 31>>),
           Ep("p", "Ann", <<2023, 1, 1, 0, 0, 0>>, <<2023, 1, 1>>),
           Ep("p", "Ann", <<2023, 1, 1, 0, 0, 1>>, <<2023, 1, 2>>),
           Ep("p", "Ann", <<2023, 6, 30, 23, 59, 59>>, <<2023, 6, 30>>),
           Ep("p", "Ann", <<2023, 7, 1, 0, 0, 0>>, <<2023, 7, 1>>),
           Ep("p", "Ann", <<2023, 7, 1, 0, 0, 1>>, <<2023, 7, 2>>) }

\* sequences over the set S of length at most n
SeqsUpTo(S, n) == UNION {[1..k -> S] : k \in 0..n}

Range(s) == {s[i] : i \in 1..Len(s)}

-----------------------------------------------------------------------------
(* What the free-text prompt can deliver *)

T_2023_01_01 == <<"2", "0", "2", "3", "-", "0", "1", "-", "0", "1">>
T_2023_07_01 == <<"2", "0", "2", "3", "-", "0", "7", "-", "0", "1">>
T_2023_3_12  == <<"2", "0", "2", "3", "-", "3", "-", "1", "2">>
T_empty      == <<>>
T_2023_02_29 == <<"2", "0", "2", "3", "-", "0", "2", "-", "2", "9">>
T_2023_13_01 == <<"2", "0", "2", "3", "-", "1", "3", "-", "0", "1">>
T_slashes    == <<"2", "0", "2", "3", "/", "0", "1", "/", "0", "1">>
T_trailing   == <<"2", "0", "2", "3", "-", "0", "1", "-", "0", "1", "x">>
T_day_first  == <<"0", "1", "-", "0", "1", "-", "2", "0", "2", "3">>

CutoffTexts ==
    {T_2023_01_01, T_2023_07_01, T_2023_3_12, T_empty, T_2023_02_29, T_2023_13_01,
     T_slashes, T_trailing, T_day_first}

DateTypes == {"Date Added to Library", "Podcast Release Date"}

\* Python's None for the selected_authors argument, beside the lists
NoAuthors == [is_none |-> TRUE, items |-> <<>>]

AuthorList(items) == [is_none |-> FALSE, items |-> items]

-----------------------------------------------------------------------------
(* remove_episodes_by_date *)

\* the episode's date under the chosen selector, as a naive datetime in seconds
EpisodeNaive(ep, dtype) ==
    IF dtype = "Date Added to Library"
    THEN NaiveSeconds(ep.added_at[1], ep.added_at[2], ep.added_at[3],
                      ep.added_at[4], ep.added_at[5], ep.added_at[6])
    ELSE NaiveSeconds(ep.release_date[1], ep.release_date[2], ep.release_date[3], 0, 0, 0)

\* the episode's date read as UTC and shown in the chosen zone
EpisodeDate(ep, dtype, tz) == astimezone(utc_localize(EpisodeNaive(ep, dtype)), tz)

\* the cutoff, midnight of the parsed date in the chosen zone
BeforeDateObj(parsed, tz) == localize(tz, NaiveSeconds(parsed.y, parsed.m, parsed.d, 0, 0, 0))

AuthorAccepted(ep, authors) == ep.publisher \in Range(authors.items)

DateBefore(ep, dtype, parsed, tz) == AwareLess(EpisodeDate(ep, dtype, tz), BeforeDateObj(parsed, tz))

\* one pass of the loop body: whether the episode is appended to filtered_episodes
Keeps(ep, dtype, parsed, tz, authors) ==
    AuthorAccepted(ep, authors) /\ DateBefore(ep, dtype, parsed, tz)

\* the loop inserting each kept episode at the front of the list
FilterLoop_insert_front(eps, dtype, parsed, tz, authors) ==
    LET kept == SelectSeq(eps, LAMBDA ep : AuthorAccepted(ep, authors) /\ DateBefore(ep, dtype, parsed, tz))
    IN  [i \in 1..Len(kept) |-> kept[Len(kept) + 1 - i]]

\* the loop over the episodes: those kept, in the order met
FilterLoop(eps, dtype, parsed, tz, authors) ==
    SelectSeq(eps, LAMBDA ep : Keeps(ep, dtype, parsed, tz, authors))

\* an observable event: a request (what, page or episode id, status in n), a prompt,
\* a function's return (item count in n) or a printed line
Event(kind, what, id, n) == [kind |-> kind, what |-> what, id |-> id, n |-> n]

Printed(what, id, n) == Event("print", what, id, n)

WouldRemoveLines(filtered) ==
    [i \in 1..Len(filtered) |-> Printed("would remove", filtered[i].id, 0)]

\* the call without the early return on an empty selection
remove_episodes_by_date_no_guard(eps, dtype, text, tz, authors) ==
    LET parsed == strptime_date(text)
    IN  IF ~parsed.ok
        THEN [raised |-> TRUE, filtered |-> <<>>, printed |-> <<>>, inspected |-> 0]
        ELSE LET filtered == FilterLoop(eps, dtype, parsed, tz, authors)
             IN  [raised |-> FALSE, filtered |-> filtered,
                  printed |-> WouldRemoveLines(filtered)
                              \o <<Printed("total matching", "", Len(filtered))>>,
                  inspected |-> Len(eps)]

\* the call's outcome: whether it raised ValueError, the list returned, the lines printed
\* and the number of episodes the loop looked at
remove_episodes_by_date(eps, dtype, text, tz, authors) ==
    LET parsed == strptime_date(text)
    IN  IF ~parsed.ok
        THEN [raised |-> TRUE, filtered |-> <<>>, printed |-> <<>>, inspected |-> 0]
        ELSE IF authors.is_none \/ authors.items = <<>>
        THEN [raised |-> FALSE, filtered |-> <<>>,
              printed |-> <<Printed("no authors selected", "", 0)>>, inspected |-> 0]
        ELSE LET filtered == FilterLoop(eps, dtype, parsed, tz, authors)
             IN  [raised |-> FALSE, filtered |-> filtered,
                  printed |-> WouldRemoveLines(filtered)
                              \o <<Printed("total matching", "", Len(filtered))>>,
                  inspected |-> Len(eps)]

-----------------------------------------------------------------------------
(* The remote service and the three calls made to it *)

StatusCodes == {200, 500}

NoToken == "None"

NoUrl == 0

Request(what, id, status) == Event("request", what, id, status)

\* a token taken from the response whatever its status
get_access_token_unchecked(status) == "token"

\* get_access_token: the token of a 200 response, None otherwise
get_access_token(status) == IF status = 200 THEN "token" ELSE NoToken

\* data['next'] of page u: the following page, or null on the last one
NextLink(u) == IF u < Len(server) THEN u + 1 ELSE NoUrl

\* the loop going on to the next page after a failed request
FetchTurn_skip_failed_page(eps, u, status) ==
    [episodes |-> IF status = 200 THEN eps \o server[u] ELSE eps,
     url |-> NextLink(u), more |-> NextLink(u) # NoUrl]

\* one turn of get_saved_episodes' loop on the response to the request for page u:
\* the list, the next url, and whether the loop goes on
FetchTurn(eps, u, status) ==
    IF status = 200
    THEN [episodes |-> eps \o server[u], url |-> NextLink(u), more |-> NextLink(u) # NoUrl]
    ELSE [episodes |-> eps, url |-> u, more |-> FALSE]

\* get_saved_episodes, one request per step
GetSavedEpisodesPage(status) ==
    /\ pc = "fetch"
    /\ url # NoUrl
    /\ LET t == FetchTurn(episodes, url, status)
           req == Request("list", ToString(url), status)
       IN  /\ episodes' = t.episodes
           /\ url' = t.url
           /\ pc' = IF t.more THEN "fetch" ELSE "fetched"
           /\ events' = IF t.more THEN Append(events, req)
                        ELSE events \o <<req, Event("return", "get_saved_episodes", "", Len(t.episodes))>>
    /\ UNCHANGED <<phase, server, access_token, selected_authors, date_type, before_date,
                   local_tz, test_mode, filter_ran, episodes_to_remove, inspected, del_idx, error>>

\* remove_saved_episode and the line the caller prints for its status
DeleteOutcome(ep, status) ==
    <<Request("delete", ep.id, status),
      IF status = 200 THEN Printed("removed", ep.id, 0) ELSE Printed("failed to remove", ep.id, 0)>>

\* the delete loop giving up at the first failed call
AfterDelete_stop_on_failure(i, n, status) == IF i < n /\ status = 200 THEN "delete" ELSE "done"

\* where the delete loop goes after the call for element i of n
AfterDelete(i, n, status) == IF i < n THEN "delete" ELSE "done"

DeleteStep(status) ==
    /\ pc = "delete"
    /\ events' = events \o DeleteOutcome(episodes_to_remove[del_idx], status)
    /\ pc' = AfterDelete(del_idx, Len(episodes_to_remove), status)
    /\ del_idx' = del_idx + 1
    /\ UNCHANGED <<phase, server, access_token, url, episodes, selected_authors, date_type,
                   before_date, local_tz, test_mode, filter_ran, episodes_to_remove,
                   inspected, error>>

-----------------------------------------------------------------------------
(* __main__ and remove_episodes_based_on_filter *)

\* sorted(set of publishers)
get_unique_authors(eps) ==
    LET present == {eps[i].publisher : i \in 1..Len(eps)}
    IN  SelectSeq(Publishers, LAMBDA a : a \in present)

\* the lists a checkbox over `choices` can return
SubSeqs(choices) ==
    {SelectSeq(choices, LAMBDA c : c \in ticked) : ticked \in SUBSET Range(choices)}

\* "Select All", or nothing ticked, stands for every author
ExpandSelection(sel, authors) ==
    IF sel = <<>> \/ "Select All" \in Range(sel) THEN Tail(authors) ELSE sel

\* the first token exchange: on failure __main__ calls exit()
MainGetAccessToken(status) ==
    /\ pc = "main_token"
    /\ access_token' = get_access_token(status)
    /\ IF get_access_token(status) # NoToken
       THEN /\ pc' = "fetch"
            /\ events' = Append(events, Request("token", "", status))
       ELSE /\ pc' = "exited"
            /\ events' = events \o <<Request("token", "", status),
                                     Printed("failed to authenticate", "", 0)>>
    /\ url' = 1
    /\ episodes' = <<>>
    /\ UNCHANGED <<phase, server, selected_authors, date_type, before_date, local_tz,
                   test_mode, filter_ran, episodes_to_remove, inspected, del_idx, error>>

\* the author checkbox over the fetched episodes' publishers
PromptAuthors(sel) ==
    /\ pc = "fetched"
    /\ phase = "main"
    /\ LET authors == <<"Select All">> \o get_unique_authors(episodes)
       IN  /\ sel \in SubSeqs(authors)
           /\ selected_authors' = AuthorList(ExpandSelection(sel, authors))
    /\ events' = Append(events, Event("prompt", "authors", "", 0))
    /\ pc' = "main_criteria"
    /\ UNCHANGED <<phase, server, access_token, url, episodes, date_type, before_date,
                   local_tz, test_mode, filter_ran, episodes_to_remove, inspected, del_idx,
                   error>>

\* the date type, cutoff, timezone and test-mode prompts, then the call
PromptCriteria(dt, text, tz, tm) ==
    /\ pc = "main_criteria"
    /\ date_type' = dt
    /\ before_date' = text
    /\ local_tz' = tz
    /\ test_mode' = tm
    /\ events' = Append(events, Event("prompt", "criteria", "", 0))
    /\ pc' = "run_token"
    /\ phase' = "run"
    /\ UNCHANGED <<server, access_token, url, episodes, selected_authors, filter_ran,
                   episodes_to_remove, inspected, del_idx, error>>

\* the second token exchange, inside remove_episodes_based_on_filter: on failure it returns
RunGetAccessToken(status) ==
    /\ pc = "run_token"
    /\ access_token' = get_access_token(status)
    /\ IF get_access_token(status) # NoToken
       THEN /\ pc' = "fetch"
            /\ events' = Append(events, Request("token", "", status))
       ELSE /\ pc' = "done"
            /\ events' = events \o <<Request("token", "", status),
                                     Printed("exiting, no access token", "", 0)>>
    /\ url' = 1
    /\ episodes' = <<>>
    /\ UNCHANGED <<phase, server, selected_authors, date_type, before_date, local_tz,
                   test_mode, filter_ran, episodes_to_remove, inspected, del_idx, error>>

\* the delete loop entered whatever the test-mode answer
EntersDeleteLoop_ignoring_test_mode(tm, to_remove) == to_remove # <<>>

\* `not test_mode and episodes_to_remove`
EntersDeleteLoop(tm, to_remove) == ~tm /\ to_remove # <<>>

\* the Date Filter called whatever the cutoff text
CallsFilter_always(text) == TRUE

\* whether `if before_date:` calls the Date Filter
CallsFilter(text) == text # <<>>

\* from the second fetch's return to the first delete request or the end of the run
RunAfterFetch ==
    /\ pc = "fetched"
    /\ phase = "run"
    /\ IF episodes = <<>>
       THEN /\ pc' = "done"
            /\ events' = Append(events, Printed("no episodes were returned", "", 0))
            /\ UNCHANGED <<filter_ran, episodes_to_remove, inspected, del_idx, error>>
       ELSE IF CallsFilter(before_date)
       THEN LET r == remove_episodes_by_date(episodes, date_type, before_date, local_tz,
                                             selected_authors)
            IN  IF r.raised
                THEN /\ pc' = "raised"
                     /\ error' = "ValueError"
                     /\ UNCHANGED <<filter_ran, episodes_to_remove, inspected, del_idx, events>>
                ELSE /\ filter_ran' = TRUE
                     /\ episodes_to_remove' = r.filtered
                     /\ inspected' = r.inspected
                     /\ events' = events \o r.printed
                                  \o <<Event("return", "remove_episodes_by_date", "", Len(r.filtered))>>
                     /\ pc' = IF EntersDeleteLoop(test_mode, r.filtered) THEN "delete" ELSE "done"
                     /\ del_idx' = 1
                     /\ UNCHANGED error
       ELSE \* episodes_to_remove was never bound: reading it raises
            /\ IF test_mode
               THEN pc' = "done" /\ UNCHANGED error
               ELSE pc' = "raised" /\ error' = "UnboundLocalError"
            /\ UNCHANGED <<filter_ran, episodes_to_remove, inspected, del_idx, events>>
    /\ UNCHANGED <<phase, server, access_token, url, episodes, selected_authors, date_type,
                   before_date, local_tz, test_mode>>

-----------------------------------------------------------------------------
(* A whole run of the script *)

\* the first n episodes of the library
LibraryPrefix(n) == {LibraryEpisodes[i] : i \in 1..(IF n < Len(LibraryEpisodes) THEN n ELSE Len(LibraryEpisodes))}

IsInjective(s) == \A i, j \in 1..Len(s) : s[i] = s[j] => i = j

\* the saved-episode collections of a run: no episode saved twice
RunLibraries == {lib \in SeqsUpTo(LibraryPrefix(MaxLib), MaxLib) : IsInjective(lib)}

\* the collection cut into pages of `limit` items; an empty collection is one empty page
Paginate(lib, limit) ==
    IF lib = <<>> THEN << <<>> >>
    ELSE [k \in 1..((Len(lib) + limit - 1) \div limit) |->
            SubSeq(lib, (k - 1) * limit + 1,
                   IF k * limit < Len(lib) THEN k * limit ELSE Len(lib))]

InitCommon ==
    /\ access_token = NoToken
    /\ filter_ran = FALSE
    /\ episodes_to_remove = <<>>
    /\ inspected = 0
    /\ del_idx = 1
    /\ error = "none"
    /\ events = <<>>

Init ==
    /\ InitCommon
    /\ pc = "main_token"
    /\ phase = "main"
    /\ server \in {Paginate(lib, PageLimit) : lib \in RunLibraries}
    /\ url = NoUrl
    /\ episodes = <<>>
    /\ selected_authors = NoAuthors
    /\ date_type = "Date Added to Library"
    /\ before_date = T_empty
    /\ local_tz = "UTC"
    /\ test_mode = TRUE

Next ==
    \/ \E status \in StatusCodes : MainGetAccessToken(status)
    \/ \E status \in StatusCodes : GetSavedEpisodesPage(status)
    \/ \E sel \in SubSeqs(<<"Select All">> \o Publishers) : PromptAuthors(sel)
    \/ \E dt \in DateTypes, text \in CutoffTexts, tz \in Zones, tm \in BOOLEAN :
          PromptCriteria(dt, text, tz, tm)
    \/ \E status \in StatusCodes : RunGetAccessToken(status)
    \/ RunAfterFetch
    \/ \E status \in StatusCodes : DeleteStep(status)

Spec == Init /\ [][Next]_vars

-----------------------------------------------------------------------------
(* get_saved_episodes on its own, over every chain of pages within the bounds *)

FetchItems == {LibraryEpisodes[1], LibraryEpisodes[2]}

PageChains == {c \in SeqsUpTo(SeqsUpTo(FetchItems, MaxPageLen), MaxPages) : c # <<>>}

FetchInit ==
    /\ InitCommon
    /\ pc = "fetch"
    /\ phase = "fetch"
    /\ server \in PageChains
    /\ url = 1
    /\ episodes = <<>>
    /\ selected_authors = NoAuthors
    /\ date_type = "Date Added to Library"
    /\ before_date = T_empty
    /\ local_tz = "UTC"
    /\ test_mode = TRUE

FetchNext == \E status \in StatusCodes : GetSavedEpisodesPage(status)

FetchSpec == FetchInit /\ [][FetchNext]_vars

-----------------------------------------------------------------------------
(* remove_episodes_by_date on its own, over every argument list within the bounds *)

FilterInputs == SeqsUpTo(Range(LibraryEpisodes), MaxSeqLen) \cup {<<e>> : e \in ProbeEpisodes}

AuthorChoices == {NoAuthors} \cup {AuthorList(a) : a \in SubSeqs(Publishers)}

CallFilter ==
    /\ pc = "filter"
    /\ LET r == remove_episodes_by_date(episodes, date_type, before_date, local_tz,
                                        selected_authors)
       IN  /\ pc' = IF r.raised THEN "raised" ELSE "filtered"
           /\ error' = IF r.raised THEN "ValueError" ELSE "none"
           /\ filter_ran' = ~r.raised
           /\ episodes_to_remove' = r.filtered
           /\ inspected' = r.inspected
           /\ events' = events \o r.printed
    /\ UNCHANGED <<phase, server, access_token, url, episodes, selected_authors, date_type,
                   before_date, local_tz, test_mode, del_idx>>

FilterInit ==
    /\ InitCommon
    /\ pc = "filter"
    /\ phase = "filter"
    /\ server = << <<>> >>
    /\ url = NoUrl
    /\ episodes \in FilterInputs
    /\ selected_authors \in AuthorChoices
    /\ date_type \in DateTypes
    /\ before_date \in CutoffTexts
    /\ local_tz \in Zones
    /\ test_mode = TRUE

FilterNext == CallFilter

FilterSpec == FilterInit /\ [][FilterNext]_vars

-----------------------------------------------------------------------------
(* Vocabulary of the properties *)

RequestsOf(what) == SelectSeq(events, LAMBDA e : e.kind = "request" /\ e.what = what)

PrintedOf(what) == SelectSeq(events, LAMBDA e : e.kind = "print" /\ e.what = what)

Ids(s) == [i \in 1..Len(s) |-> s[i].id]

\* the elements of s at the positions in idx, in the order of s
AtPositions(s, idx) ==
    LET kept == SelectSeq([i \in 1..Len(s) |-> i], LAMBDA i : i \in idx)
    IN  [k \in 1..Len(kept) |-> s[kept[k]]]

IsSubsequence(sub, s) == \E idx \in SUBSET (1..Len(s)) : AtPositions(s, idx) = sub

RECURSIVE Flatten(_)
Flatten(pages) == IF pages = <<>> THEN <<>> ELSE Head(pages) \o Flatten(Tail(pages))

\* the cutoff texts of the model that spell a date, and those that do not
DateTexts == {T_2023_01_01, T_2023_07_01, T_2023_3_12}

MalformedTexts == {T_empty, T_2023_02_29, T_2023_13_01, T_slashes, T_trailing, T_day_first}

\* the calendar day (days since 1970-01-01) of the cutoff text
CutoffDay(text) ==
    CASE text = T_2023_01_01 -> DaysFromCivil(2023, 1, 1)
      [] text = T_2023_07_01 -> DaysFromCivil(2023, 7, 1)
      [] text = T_2023_3_12 -> DaysFromCivil(2023, 3, 12)

\* the calendar day on which the instant t falls on the wall clock of zone z
LocalDay(t, z) == (t + UtcOffset(z, t)) \div 86400

AddedInstant(ep) ==
    NaiveSeconds(ep.added_at[1], ep.added_at[2], ep.added_at[3],
                 ep.added_at[4], ep.added_at[5], ep.added_at[6])

ReleaseDay(ep) == DaysFromCivil(ep.release_date[1], ep.release_date[2], ep.release_date[3])

AuthorsGiven == ~selected_authors.is_none /\ selected_authors.items # <<>>

Accepted(ep) == ep.publisher \in Range(selected_authors.items)

Included(ep) == ep \in Range(episodes_to_remove)

\* the second fetch returned something, and the code after it has run
ReachedFilterStep == phase = "run" /\ pc \in {"delete", "done", "raised"} /\ episodes # <<>>

-----------------------------------------------------------------------------
(* Properties of remove_episodes_by_date, under FilterSpec *)

\* C2: the Date Filter's output is a subsequence of its input (only items of the input,
\* none more often than in the input, in the input's order), and every item's
\* publisher is one of the accepted authors.
C2_FilterIsSubsequence ==
    pc = "filtered" =>
        /\ IsSubsequence(episodes_to_remove, episodes)
        /\ \A i \in 1..Len(episodes_to_remove) : Accepted(episodes_to_remove[i])

\* C2 witness: two episodes of accepted authors went in, the second alone came out.
C2_Witness ==
    /\ pc = "filtered"
    /\ Len(episodes) = 2
    /\ Accepted(episodes[1]) /\ Accepted(episodes[2])
    /\ episodes_to_remove = <<episodes[2]>>
    /\ episodes[1] # episodes[2]

\* C3: with the added-date selector an episode of an accepted publisher is included
\* exactly when its library-add instant, shown on the wall clock of the chosen zone,
\* falls on a calendar day before the cutoff date, i.e. strictly before the cutoff's
\* local midnight; the instant of that midnight itself is excluded; and the episode
\* added at 2023-01-01T00:00:00Z is included for the cutoff 2023-01-01 in Los Angeles.
C3_AddedDateStrictlyBeforeLocalMidnight ==
    (pc = "filtered" /\ date_type = "Date Added to Library" /\ AuthorsGiven) =>
        /\ \A i \in 1..Len(episodes) :
              Accepted(episodes[i]) =>
                 (Included(episodes[i])
                    <=> LocalDay(AddedInstant(episodes[i]), local_tz) < CutoffDay(before_date))
        /\ \A i \in 1..Len(episodes) :
              (Accepted(episodes[i])
                 /\ AddedInstant(episodes[i]) + UtcOffset(local_tz, AddedInstant(episodes[i]))
                      = CutoffDay(before_date) * 86400)
              => ~Included(episodes[i])
        /\ \A i \in 1..Len(episodes) :
              (Accepted(episodes[i]) /\ episodes[i].added_at = <<2023, 1, 1, 0, 0, 0>>
                 /\ before_date = T_2023_01_01 /\ local_tz = "America/Los_Angeles")
              => Included(episodes[i])

\* C3 witness: the spec's example, 2023-01-01T00:00:00Z against 2023-01-01 in Los Angeles.
C3_Witness ==
    /\ pc = "filtered"
    /\ date_type = "Date Added to Library"
    /\ before_date = T_2023_01_01
    /\ local_tz = "America/Los_Angeles"
    /\ Len(episodes) = 1
    /\ episodes[1].added_at = <<2023, 1, 1, 0, 0, 0>>
    /\ episodes_to_remove = episodes

\* C4, as claimed: with the release-date selector an episode of an accepted publisher
\* is included exactly when its release day is before the cutoff day, in every zone.
C4_ReleaseDateComparedAsCalendarDate ==
    (pc = "filtered" /\ date_type = "Podcast Release Date" /\ AuthorsGiven) =>
        \A i \in 1..Len(episodes) :
            Accepted(episodes[i]) =>
               (Included(episodes[i]) <=> ReleaseDay(episodes[i]) < CutoffDay(before_date))

\* C5, as claimed: with no accepted author the filter returns an empty result and a
\* warning for every cutoff string, raising nothing and looking at no episode.
C5_EmptyAuthorsAnyCutoff ==
    (pc \in {"filtered", "raised"} /\ ~AuthorsGiven) =>
        /\ pc = "filtered"
        /\ error = "none"
        /\ episodes_to_remove = <<>>
        /\ inspected = 0
        /\ Len(PrintedOf("no authors selected")) = 1

\* C5, amended: with no accepted author and a cutoff string that spells a date, the
\* filter returns an empty result and one warning, raising nothing and looking at no
\* episode; a cutoff string that spells no date raises the parse failure first.
C5_EmptyAuthorsParsedCutoff ==
    (pc \in {"filtered", "raised"} /\ ~AuthorsGiven) =>
        IF before_date \in DateTexts
        THEN /\ pc = "filtered"
             /\ error = "none"
             /\ episodes_to_remove = <<>>
             /\ inspected = 0
             /\ Len(PrintedOf("no authors selected")) = 1
        ELSE /\ pc = "raised"
             /\ error = "ValueError"
             /\ events = <<>>

\* C5 witness: an empty list of authors, episodes to look at, a good cutoff.
C5_Witness ==
    /\ pc = "filtered"
    /\ selected_authors = AuthorList(<<>>)
    /\ Len(episodes) = 2
    /\ before_date = T_2023_07_01
    /\ episodes_to_remove = <<>>

-----------------------------------------------------------------------------
(* Properties of get_saved_episodes, under FetchSpec *)

\* C7: when get_saved_episodes returns, it has asked for pages 1, 2, ... in order, every
\* request but possibly the last was answered 200, a 200 on the last request means the
\* chain was exhausted, the result is the concatenation in page order of the pages
\* answered 200, and no error was raised.
C7_FetchReturnsPagesBeforeFirstFailure ==
    pc = "fetched" =>
        LET reqs == RequestsOf("list")
            k == Len(reqs)
            ok == IF reqs[k].n = 200 THEN k ELSE k - 1
        IN  /\ k >= 1
            /\ \A i \in 1..k : reqs[i].id = ToString(i)
            /\ \A i \in 1..(k - 1) : reqs[i].n = 200
            /\ reqs[k].n = 200 => k = Len(server)
            /\ episodes = Flatten(SubSeq(server, 1, ok))
            /\ error = "none"

\* C7 witness: three pages, the second request fails, exactly the first page is returned.
C7_Witness ==
    /\ pc = "fetched"
    /\ Len(server) = 3
    /\ Len(server[1]) = 2 /\ Len(server[2]) = 2 /\ Len(server[3]) = 1
    /\ Len(RequestsOf("list")) = 2
    /\ RequestsOf("list")[2].n # 200
    /\ episodes = server[1]

-----------------------------------------------------------------------------
(* Properties of a whole run, under Spec *)

\* C1: once test mode is chosen no delete request is ever issued, and a dry run that
\* reaches its end has printed one candidate line per filtered episode and no
\* removal line.
C1_DryRunNeverDeletes ==
    test_mode =>
        /\ RequestsOf("delete") = <<>>
        /\ PrintedOf("removed") = <<>> /\ PrintedOf("failed to remove") = <<>>
        /\ filter_ran => Ids(PrintedOf("would remove")) = Ids(episodes_to_remove)

\* C1 witness: a finished dry run whose filter selected two episodes.
C1_Witness ==
    /\ phase = "run" /\ pc = "done"
    /\ test_mode
    /\ filter_ran
    /\ Len(episodes_to_remove) = 2

\* C6: a token exchange answered with a status other than 200 is the last request of
\* the run: no list, delete or token request follows it, no token is held and the run
\* has ended.
C6_TokenFailureIsFatal ==
    \A i \in 1..Len(events) :
        (events[i].kind = "request" /\ events[i].what = "token" /\ events[i].n # 200) =>
            /\ \A j \in (i + 1)..Len(events) : events[j].kind # "request"
            /\ access_token = NoToken
            /\ pc \in {"exited", "done"}
            /\ error = "none"

\* C6 witness: the second token exchange fails after the prompts; the run ends there.
C6_Witness ==
    /\ pc = "done"
    /\ Len(RequestsOf("token")) = 2
    /\ RequestsOf("token")[2].n # 200
    /\ Len(RequestsOf("list")) >= 1

\* C8: in a live run whose filter returned F, the delete requests issued so far are
\* those for the first elements of F, in F's order and one id each; each request is
\* followed by a success line exactly when its status is 200 and by a failure line
\* otherwise; and at the end of the run there is one request per element of F.
C8_OneDeletePerFilteredEpisode ==
    (~test_mode /\ filter_ran) =>
        LET dels == RequestsOf("delete")
            n == Len(dels)
            oks == SelectSeq(dels, LAMBDA e : e.n = 200)
            kos == SelectSeq(dels, LAMBDA e : e.n # 200)
        IN  /\ n <= Len(episodes_to_remove)
            /\ Ids(dels) = Ids(SubSeq(episodes_to_remove, 1, n))
            /\ Ids(PrintedOf("removed")) = Ids(oks)
            /\ Ids(PrintedOf("failed to remove")) = Ids(kos)
            /\ pc = "delete" => n = del_idx - 1 /\ n < Len(episodes_to_remove)
            /\ pc = "done" =>
                  /\ n = Len(episodes_to_remove)
                  /\ Len(PrintedOf("removed")) + Len(PrintedOf("failed to remove"))
                       = Len(episodes_to_remove)

\* C8 witness: three episodes selected, the second delete fails, all three are attempted.
C8_Witness ==
    /\ pc = "done"
    /\ ~test_mode
    /\ Len(episodes_to_remove) = 3
    /\ Len(RequestsOf("delete")) = 3
    /\ RequestsOf("delete")[1].n = 200
    /\ RequestsOf("delete")[2].n # 200
    /\ RequestsOf("delete")[3].n = 200
    /\ Len(PrintedOf("removed")) = 2
    /\ Len(PrintedOf("failed to remove")) = 1

\* C9, as claimed: once a fetch has returned an empty collection the run is over: no
\* prompt is shown and no request is issued after it.
C9_EmptyFetchAbortsRun ==
    \A i \in 1..Len(events) :
        (events[i].kind = "return" /\ events[i].what = "get_saved_episodes" /\ events[i].n = 0) =>
            \A j \in (i + 1)..Len(events) : events[j].kind \notin {"prompt", "request"}

====
